---------------------------- MODULE Spec2Model ----------------------------
(***************************************************************************)
(* Document question answering on Convex: convex/documents.ts (document    *)
(* store, chunker, scheduled processing) and convex/queries.ts (retrieval, *)
(* ranking, query records).                                                *)
(*                                                                         *)
(* A text is a sequence of one-character strings, offsets are 0-based and  *)
(* end-exclusive as in the source.  Four specifications share the module:  *)
(*   SpecChunk     the loop of splitIntoChunks, one iteration per step;    *)
(*   SpecSimilarity  calculateTextSimilarity on pairs of bounded texts;    *)
(*   SpecRetrieve  findRelevantSources on bounded document collections;    *)
(*   Spec          the document store, the scheduler and processQuery.     *)
(***************************************************************************)
EXTENDS Integers, Sequences, FiniteSets, TLC

VARIABLES
    \* ---- splitIntoChunks (documents.ts:150-169), SpecChunk
    text,          \* parameter text
    chunkSize,     \* parameter chunkSize
    overlap,       \* parameter overlap
    startIndex,    \* local startIndex
    chunks,        \* local chunks
    pcSplit,       \* "loop": at the while test; "done": returned
    \* ---- findRelevantSources (queries.ts), SpecRetrieve
    rQuery,        \* parameter query
    rDocuments,    \* parameter documents
    rSources,      \* the value returned
    pcRetrieve,    \* "call": not yet run; "done": returned
    \* ---- calculateTextSimilarity (queries.ts), SpecSimilarity
    simText1,         \* a text
    simText2,         \* another text
    similarity,         \* calculateTextSimilarity(text1, text2), once run
    similaritySwapped,  \* calculateTextSimilarity(text2, text1), once run
    \* ---- the deployment, Spec
    dbDocuments,   \* table documents, rows in insertion order
    dbQueries,     \* table queries, rows in insertion order
    scheduled,     \* the runs of processDocument scheduled or under way
    requests,      \* the calls of processQuery under way
    nextId,        \* the _id of the next row of documents
    clock          \* Date.now()

chunkVars == <<text, chunkSize, overlap, startIndex, chunks, pcSplit>>

retrieveVars == <<rQuery, rDocuments, rSources, pcRetrieve>>

simVars == <<simText1, simText2, similarity, similaritySwapped>>

sysVars == <<dbDocuments, dbQueries, scheduled, requests, nextId, clock>>

vars == <<chunkVars, retrieveVars, simVars, sysVars>>

\* no user, no identity
None == "none"

\* an optional field of a row: absent, or holding one value
Absent == <<>>
Some(x) == <<x>>
IsAbsent(field) == Len(field) = 0
Value(field) == field[1]

\* a similarity not computed yet (a computed one has den >= 1)
NotScored == [num |-> 0, den |-> 0]

\* the values of a part of the state while another specification runs
IdleChunk ==
    /\ text = <<>> /\ chunkSize = 1 /\ overlap = 0
    /\ startIndex = 0 /\ chunks = <<>> /\ pcSplit = "done"

IdleRetrieve ==
    /\ rQuery = <<>> /\ rDocuments = <<>> /\ rSources = <<>>
    /\ pcRetrieve = "done"

IdleSimilarity ==
    /\ simText1 = <<>> /\ simText2 = <<>>
    /\ similarity = NotScored /\ similaritySwapped = NotScored

IdleSystem ==
    /\ dbDocuments = <<>> /\ dbQueries = <<>> /\ scheduled = <<>>
    /\ requests = <<>> /\ nextId = 1 /\ clock = 0

Min(a, b) == IF a <= b THEN a ELSE b
Max(a, b) == IF a >= b THEN a ELSE b

(***************************************************************************)
(* Bounds of the chunker specification.                                    *)
(***************************************************************************)
MaxTextLen == 6     \* longest text given to the stepped chunker
MaxWindow == 3      \* largest chunkSize / overlap given to it

\* iterations after which a run that has not returned is cut off; a run
\* that advances by at least one character per iteration returns earlier
MaxIter == MaxTextLen + 2

(***************************************************************************)
(* String.prototype.slice(start, end): negative offsets count from the end *)
(* of the string, both are clamped to [0, length].                         *)
(***************************************************************************)
SliceOffset(n, len) == IF n < 0 THEN Max(len + n, 0) ELSE Min(n, len)

Slice(t, from, to) ==
    SubSeq(t, SliceOffset(from, Len(t)) + 1, SliceOffset(to, Len(t)))

(***************************************************************************)
(* One iteration of the while loop of splitIntoChunks, for a loop state    *)
(* st = [startIndex, chunks, done].                                        *)
(***************************************************************************)
\* faulty variant: leaves the loop once the text left is no longer than the
\* overlap
ChunkBreakNoTail(t, size, ov, st) ==
    LET endIndex == Min(st.startIndex + size, Len(t))
        chunk == [content |-> Slice(t, st.startIndex, endIndex),
                  startIndex |-> st.startIndex, endIndex |-> endIndex]
    IN  IF endIndex + ov >= Len(t)
        THEN [startIndex |-> st.startIndex,
              chunks |-> Append(st.chunks, chunk), done |-> TRUE]
        ELSE [startIndex |-> endIndex - ov,
              chunks |-> Append(st.chunks, chunk), done |-> FALSE]

\* faulty variant: the next window starts where this one ends
ChunkAdvanceNoOverlap(t, size, ov, st) ==
    LET endIndex == Min(st.startIndex + size, Len(t))
        chunk == [content |-> Slice(t, st.startIndex, endIndex),
                  startIndex |-> st.startIndex, endIndex |-> endIndex]
    IN  IF endIndex = Len(t)
        THEN [startIndex |-> st.startIndex,
              chunks |-> Append(st.chunks, chunk), done |-> TRUE]
        ELSE [startIndex |-> endIndex,
              chunks |-> Append(st.chunks, chunk), done |-> FALSE]

\* the iteration as written
ChunkIteration(t, size, ov, st) ==
    LET endIndex == Min(st.startIndex + size, Len(t))
        chunk == [content |-> Slice(t, st.startIndex, endIndex),
                  startIndex |-> st.startIndex, endIndex |-> endIndex]
    IN  IF endIndex = Len(t)
        THEN [startIndex |-> st.startIndex,
              chunks |-> Append(st.chunks, chunk), done |-> TRUE]
        ELSE [startIndex |-> endIndex - ov,
              chunks |-> Append(st.chunks, chunk), done |-> FALSE]

\* the while test: startIndex < text.length
ChunkLoopTest(t, st) == st.startIndex < Len(t)

(***************************************************************************)
(* splitIntoChunks as a function, for the callers that run it to its       *)
(* return (a configuration with chunkSize > overlap).                      *)
(***************************************************************************)
RECURSIVE SplitLoop(_, _, _, _)
SplitLoop(t, size, ov, st) ==
    IF st.done \/ ~ChunkLoopTest(t, st)
    THEN st.chunks
    ELSE SplitLoop(t, size, ov, ChunkIteration(t, size, ov, st))

splitIntoChunks(t, size, ov) ==
    SplitLoop(t, size, ov, [startIndex |-> 0, chunks |-> <<>>, done |-> FALSE])

(***************************************************************************)
(* Texts.  String.prototype.toLowerCase on the letters A-Z, and            *)
(* String.prototype.split(/\s+/): the pieces between the maximal runs of   *)
(* whitespace, with an empty first (last) piece when the text starts       *)
(* (ends) with whitespace; the empty text gives one empty piece.           *)
(***************************************************************************)
UpperCase ==
    <<"A", "B", "C", "D", "E", "F", "G", "H", "I", "J", "K", "L",
      "M", "N", "O", "P", "Q", "R", "S", "T", "U", "V", "W", "X",
      "Y", "Z">>

LowerCase ==
    <<"a", "b", "c", "d", "e", "f", "g", "h", "i", "j", "k", "l",
      "m", "n", "o", "p", "q", "r", "s", "t", "u", "v", "w", "x",
      "y", "z">>

LowerOf ==
    [c \in {UpperCase[i] : i \in 1..Len(UpperCase)} |->
        LowerCase[CHOOSE i \in 1..Len(UpperCase) : UpperCase[i] = c]]

ToLowerChar(c) == IF c \in DOMAIN LowerOf THEN LowerOf[c] ELSE c

toLowerCase(t) == [i \in 1..Len(t) |-> ToLowerChar(t[i])]

IsSpace(c) == c \in {" ", "\n", "\t"}

\* the pieces between single whitespace characters: separators holds the
\* positions of the whitespace characters in increasing order
SplitOnEach(t) ==
    LET separators ==
            SelectSeq([i \in 1..Len(t) |-> i], LAMBDA i : IsSpace(t[i]))
        n == Len(separators)
    IN  [k \in 1..(n + 1) |->
            SubSeq(t,
                   IF k = 1 THEN 1 ELSE separators[k - 1] + 1,
                   IF k = n + 1 THEN Len(t) ELSE separators[k] - 1)]

\* a run of whitespace is one separator: the empty pieces between two
\* adjacent whitespace characters are not pieces of split(/\s+/)
SplitWhitespace(t) ==
    LET p == SplitOnEach(t)
        n == Len(p)
    IN  IF n <= 2 THEN p
        ELSE <<p[1]>>
                 \o SelectSeq(SubSeq(p, 2, n - 1), LAMBDA w : w # <<>>)
                 \o <<p[n]>>

Includes(words, word) == \E j \in 1..Len(words) : words[j] = word

(***************************************************************************)
(* calculateTextSimilarity.  The quotient commonWords.length /             *)
(* Math.max(...) is kept as the pair [num, den] (den >= 1, since split     *)
(* never returns an empty array); IEEE division is correctly rounded, so   *)
(* for the sizes here two quotients are equal, or ordered, as doubles      *)
(* exactly when they are as fractions, and n/d > 0.1 iff 10 n > d.         *)
(***************************************************************************)
\* faulty variant: divides by the length of the first word list
SimilarityOverFirst(text1, text2) ==
    LET words1 == SplitWhitespace(text1)
        words2 == SplitWhitespace(text2)
        commonWords == SelectSeq(words1,
                           LAMBDA word : Len(word) > 3 /\ Includes(words2, word))
    IN  [num |-> Len(commonWords), den |-> Len(words1)]

calculateTextSimilarity(text1, text2) ==
    LET words1 == SplitWhitespace(text1)
        words2 == SplitWhitespace(text2)
        commonWords == SelectSeq(words1,
                           LAMBDA word : Len(word) > 3 /\ Includes(words2, word))
    IN  [num |-> Len(commonWords),
         den |-> Max(Len(words1), Len(words2))]

\* faulty variant: similarity >= 0.1
AtOrAboveThreshold(sim) == 10 * sim.num >= sim.den

\* similarity > 0.1
AboveThreshold(sim) == 10 * sim.num > sim.den

\* the sign of a.confidence - b.confidence
CompareConfidence(a, b) == a.num * b.den - b.num * a.den

(***************************************************************************)
(* findRelevantSources: the scan over documents and chunks, the sort by    *)
(* confidence (Array.prototype.sort is stable: among sources the           *)
(* comparator calls equal the earlier pushed stays first) and slice(0, 5). *)
(***************************************************************************)
TopK == 5

ChunkSources(query, doc) ==
    IF IsAbsent(doc.chunks) THEN <<>>
    ELSE LET docChunks == Value(doc.chunks)
             scored ==
                 [i \in 1..Len(docChunks) |->
                     [documentId |-> doc._id,
                      documentTitle |-> doc.title,
                      relevantChunk |-> docChunks[i].content,
                      confidence |->
                          calculateTextSimilarity(toLowerCase(query),
                              toLowerCase(docChunks[i].content)),
                      startIndex |-> docChunks[i].startIndex,
                      endIndex |-> docChunks[i].endIndex]]
         IN  SelectSeq(scored, LAMBDA s : AboveThreshold(s.confidence))

RECURSIVE ScanDocuments(_, _)
ScanDocuments(query, documents) ==
    IF documents = <<>> THEN <<>>
    ELSE ChunkSources(query, Head(documents))
             \o ScanDocuments(query, Tail(documents))

\* sorted is sorted by confidence descending; s goes behind every source
\* that does not compare below it
InsertSource(sorted, s) ==
    LET before == {i \in 1..Len(sorted) :
                      CompareConfidence(sorted[i].confidence, s.confidence) < 0}
        at == IF before = {} THEN Len(sorted) + 1
              ELSE CHOOSE i \in before : \A j \in before : i <= j
    IN  SubSeq(sorted, 1, at - 1) \o <<s>> \o SubSeq(sorted, at, Len(sorted))

RECURSIVE SortFrom(_, _, _)
SortFrom(sources, i, sorted) ==
    IF i > Len(sources) THEN sorted
    ELSE SortFrom(sources, i + 1, InsertSource(sorted, sources[i]))

\* faulty variant: a.confidence - b.confidence
SortAscending(sources) ==
    LET s == SortFrom(sources, 1, <<>>)
    IN  [i \in 1..Len(s) |-> s[Len(s) + 1 - i]]

SortByConfidence(sources) == SortFrom(sources, 1, <<>>)

SliceTop(sources) == SubSeq(sources, 1, Min(TopK, Len(sources)))

findRelevantSources(query, documents) ==
    SliceTop(SortByConfidence(ScanDocuments(query, documents)))

(***************************************************************************)
(* processDocument's chunking of a document: windows of 1000 characters    *)
(* overlapping by 200, chunk i with the id `${documentId}-${i}`, here the  *)
(* pair <<documentId, i>>.                                                 *)
(***************************************************************************)
DocChunkSize == 1000
DocChunkOverlap == 200

\* faulty variant: the ids count from 1
DocumentChunksFromOne(documentId, content) ==
    LET cs == splitIntoChunks(content, DocChunkSize, DocChunkOverlap)
    IN  [i \in 1..Len(cs) |->
            [id |-> <<documentId, i>>,
             content |-> cs[i].content,
             startIndex |-> cs[i].startIndex,
             endIndex |-> cs[i].endIndex]]

\* the chunks processDocument hands to updateDocumentChunks
DocumentChunks(documentId, content) ==
    LET cs == splitIntoChunks(content, DocChunkSize, DocChunkOverlap)
    IN  [i \in 1..Len(cs) |->
            [id |-> <<documentId, i - 1>>,
             content |-> cs[i].content,
             startIndex |-> cs[i].startIndex,
             endIndex |-> cs[i].endIndex]]

(***************************************************************************)
(* Texts of the retrieval specifications.                                  *)
(***************************************************************************)
\* word w, n times, separated by single blanks
Repeat(w, n) ==
    [i \in 1..(n * (Len(w) + 1) - 1) |->
        IF i % (Len(w) + 1) = 0 THEN " " ELSE w[i % (Len(w) + 1)]]

PolicyContent ==
    <<"T", "h", "e", " ", "p", "r", "i", "v", "a", "c", "y", " ",
      "p", "o", "l", "i", "c", "y", " ", "r", "e", "q", "u", "i",
      "r", "e", "s", " ", "e", "n", "c", "r", "y", "p", "t", "i",
      "o", "n", " ", "o", "f", " ", "a", "l", "l", " ", "u", "s",
      "e", "r", " ", "d", "a", "t", "a", " ", "a", "t", " ", "r",
      "e", "s", "t", " ", "a", "n", "d", " ", "i", "n", " ", "t",
      "r", "a", "n", "s", "i", "t", ".">>

PolicyQuery ==
    <<"W", "h", "a", "t", " ", "d", "o", "e", "s", " ", "t", "h",
      "e", " ", "p", "o", "l", "i", "c", "y", " ", "s", "a", "y",
      " ", "a", "b", "o", "u", "t", " ", "e", "n", "c", "r", "y",
      "p", "t", "i", "o", "n", "?">>

\* a word of four letters, upper case in part, and another one
WordA == <<"a", "b", "c", "d">>
WordW == <<"W", "x", "y", "z">>

\* QueryLong: "abcd" 25 times; QueryShort: "Abcd abcd efgh"
QueryLong == Repeat(WordA, 25)
QueryShort == <<"A", "b", "c", "d", " ">> \o WordA \o <<" ", "e", "f", "g", "h">>

\* 1099 characters, two windows: [0, 1000) and [800, 1099)
LongContent == Repeat(WordA, 220)

\* "ABCD" and 19 one-letter words: 20 words
ThresholdContent == <<"A", "B", "C", "D", " ">> \o Repeat(<<"x">>, 19)

RetrievalContents == <<WordA, WordW, LongContent, ThresholdContent>>

(***************************************************************************)
(* Documents as rows of the documents table (schema: title, content,       *)
(* uploadedBy, optional chunks and processedAt; fileType, fileSize and     *)
(* storageId are stored and never read by the functions modelled).         *)
(***************************************************************************)
NewDocument(id, title, content, userId) ==
    [_id |-> id, title |-> title, content |-> content, uploadedBy |-> userId,
     chunks |-> Absent, processedAt |-> Absent]

PatchChunks(doc, newChunks, now) ==
    [doc EXCEPT !.chunks = Some(newChunks), !.processedAt = Some(now)]

Processed(doc, now) ==
    PatchChunks(doc, DocumentChunks(doc._id, doc.content), now)

(***************************************************************************)
(* SpecChunk: splitIntoChunks stepped through its loop on every text over  *)
(* a two-letter alphabet up to MaxTextLen and every (chunkSize, overlap)   *)
(* up to MaxWindow, the configurations with overlap >= chunkSize included  *)
(* (the function does not look at its configuration before the loop).      *)
(***************************************************************************)
ChunkAlphabet == {"a", "b"}

ChunkTexts == UNION {[1..n -> ChunkAlphabet] : n \in 0..MaxTextLen}

InitChunk ==
    /\ text \in ChunkTexts
    /\ chunkSize \in 1..MaxWindow
    /\ overlap \in 0..MaxWindow
    /\ startIndex = 0
    /\ chunks = <<>>
    /\ pcSplit = "loop"
    /\ IdleRetrieve /\ IdleSimilarity /\ IdleSystem

\* the loop test fails: return chunks
SplitReturn ==
    /\ pcSplit = "loop"
    /\ ~ChunkLoopTest(text, [startIndex |-> startIndex])
    /\ pcSplit' = "done"
    /\ UNCHANGED <<text, chunkSize, overlap, startIndex, chunks>>
    /\ UNCHANGED <<retrieveVars, simVars, sysVars>>

\* one pass through the loop body: push a window, then break or advance
SplitIterate ==
    /\ pcSplit = "loop"
    /\ ChunkLoopTest(text, [startIndex |-> startIndex])
    /\ Len(chunks) < MaxIter
    /\ LET st == ChunkIteration(text, chunkSize, overlap,
                     [startIndex |-> startIndex, chunks |-> chunks,
                      done |-> FALSE])
       IN  /\ startIndex' = st.startIndex
           /\ chunks' = st.chunks
           /\ pcSplit' = IF st.done THEN "done" ELSE "loop"
    /\ UNCHANGED <<text, chunkSize, overlap>>
    /\ UNCHANGED <<retrieveVars, simVars, sysVars>>

NextChunk == SplitReturn \/ SplitIterate

SpecChunk == InitChunk /\ [][NextChunk]_vars

ValidConfig == chunkSize > overlap /\ overlap >= 0

Returned == pcSplit = "done"

\* C1: for chunkSize > overlap >= 0 the returned chunks tile the text: the
\* first starts at 0, each next one starts at or before the previous end,
\* every chunk has 0 <= start < end <= L, the last one ends at L; an empty
\* text gives no chunk, a text of at most chunkSize characters exactly [0, L).
C1_ChunksTileText ==
    /\ (ValidConfig /\ ~Returned) => Len(chunks) < MaxIter
    /\ (Returned /\ ValidConfig) =>
        LET L == Len(text)
            n == Len(chunks)
        IN  /\ (L = 0) => (n = 0)
            /\ (L > 0) =>
                  /\ n >= 1
                  /\ chunks[1].startIndex = 0
                  /\ chunks[n].endIndex = L
            /\ \A i \in 1..n :
                  /\ 0 <= chunks[i].startIndex
                  /\ chunks[i].startIndex < chunks[i].endIndex
                  /\ chunks[i].endIndex <= L
            /\ \A i \in 1..(n - 1) :
                  chunks[i + 1].startIndex <= chunks[i].endIndex
            /\ \A p \in 0..(L - 1) :
                  \E i \in 1..n :
                      chunks[i].startIndex <= p /\ p < chunks[i].endIndex
            /\ (0 < L /\ L <= chunkSize) =>
                  (n = 1 /\ chunks[1].startIndex = 0 /\ chunks[1].endIndex = L)

C1_Witness ==
    /\ Returned /\ ValidConfig
    /\ overlap > 0
    /\ Len(chunks) >= 3
    /\ chunks[Len(chunks)].endIndex - chunks[Len(chunks)].startIndex < chunkSize

\* C2: for chunkSize > overlap >= 0 consecutive returned chunks satisfy
\* next.start = prev.end - overlap, and every chunk but the last has
\* exactly chunkSize characters.
C2_OverlapAndWindow ==
    (Returned /\ ValidConfig) =>
        /\ \A i \in 1..(Len(chunks) - 1) :
              /\ chunks[i + 1].startIndex = chunks[i].endIndex - overlap
              /\ chunks[i].endIndex - chunks[i].startIndex = chunkSize
              /\ Len(chunks[i].content) = chunkSize

C2_Witness ==
    /\ Returned /\ ValidConfig
    /\ overlap = 2
    /\ Len(chunks) >= 3

\* C3: a configuration with overlap >= chunkSize is rejected or clamped
\* before any window is computed, so no pass through the loop leaves
\* startIndex where it was or moves it backwards.
C3_EveryIterationAdvances ==
    [][(pcSplit = "loop" /\ pcSplit' = "loop") => startIndex' > startIndex]_vars

(***************************************************************************)
(* SpecRetrieve: findRelevantSources on every collection of at most        *)
(* MaxRetrievalDocs documents, each one unprocessed or the processed       *)
(* document of one of RetrievalContents, for both queries; and on the      *)
(* policy document with the policy query.                                  *)
(***************************************************************************)
MaxRetrievalDocs == 3

RetrievalDocument(i, option) ==
    IF option = 0
    THEN NewDocument(i, <<"t", i>>, WordA, "u1")
    ELSE Processed(NewDocument(i, <<"t", i>>, RetrievalContents[option], "u1"), 1)

RetrievalCollections ==
    UNION {{[i \in 1..n |-> RetrievalDocument(i, o[i])] :
               o \in [1..n -> 0..Len(RetrievalContents)]} :
           n \in 0..MaxRetrievalDocs}

PolicyCollection ==
    <<Processed(NewDocument(1, <<"t", 1>>, PolicyContent, "u1"), 1)>>

InitRetrieve ==
    /\ \/ rQuery \in {QueryLong, QueryShort} /\ rDocuments \in RetrievalCollections
       \/ rQuery = PolicyQuery /\ rDocuments = PolicyCollection
    /\ rSources = <<>>
    /\ pcRetrieve = "call"
    /\ IdleChunk /\ IdleSimilarity /\ IdleSystem

Retrieve ==
    /\ pcRetrieve = "call"
    /\ rSources' = findRelevantSources(rQuery, rDocuments)
    /\ pcRetrieve' = "done"
    /\ UNCHANGED <<rQuery, rDocuments>>
    /\ UNCHANGED <<chunkVars, simVars, sysVars>>

NextRetrieve == Retrieve

SpecRetrieve == InitRetrieve /\ [][NextRetrieve]_vars

(***************************************************************************)
(* The ranking stated without the scan and the sort: the scored chunks of  *)
(* a collection as pairs <<d, c>> (document d of the collection, its chunk *)
(* c), their score, and the place each pair takes among those above the    *)
(* threshold when they are ordered by score descending, ties in document   *)
(* order, then chunk order.                                                *)
(***************************************************************************)
ChunkPairs(documents) ==
    UNION {{<<d, c>> : c \in 1..(IF IsAbsent(documents[d].chunks) THEN 0
                                 ELSE Len(Value(documents[d].chunks)))} :
           d \in 1..Len(documents)}

PairChunk(documents, p) == Value(documents[p[1]].chunks)[p[2]]

\* occurrences of words longer than 3 among the lower-cased query's words
\* that are words of the lower-cased chunk, over the longer word list
PairScore(query, documents, p) ==
    LET qw == SplitWhitespace(toLowerCase(query))
        cw == SplitWhitespace(toLowerCase(PairChunk(documents, p).content))
        chunkWords == {cw[j] : j \in 1..Len(cw)}
    IN  [num |-> Cardinality({i \in 1..Len(qw) :
                     Len(qw[i]) > 3 /\ qw[i] \in chunkWords}),
         den |-> Max(Len(qw), Len(cw))]

\* the score of every pair of the collection
Scores(query, documents) ==
    [p \in ChunkPairs(documents) |-> PairScore(query, documents, p)]

\* the pairs above the threshold, sc being the scores
Surviving(sc) == {p \in DOMAIN sc : 10 * sc[p].num > sc[p].den}

PairBefore(p, q) == p[1] < q[1] \/ (p[1] = q[1] /\ p[2] < q[2])

\* how many surviving pairs come before p in the ranking
Rank(sc, p) ==
    Cardinality({q \in Surviving(sc) :
        \/ sc[q].num * sc[p].den > sc[p].num * sc[q].den
        \/ (sc[q].num * sc[p].den = sc[p].num * sc[q].den /\ PairBefore(q, p))})

\* source s is the Source of pair p
SourceOf(documents, p, s) ==
    /\ s.documentId = documents[p[1]]._id
    /\ s.documentTitle = documents[p[1]].title
    /\ s.relevantChunk = PairChunk(documents, p).content
    /\ s.startIndex = PairChunk(documents, p).startIndex
    /\ s.endIndex = PairChunk(documents, p).endIndex

RetrieveDone == pcRetrieve = "done"

\* C4: for the single document "The privacy policy requires encryption of
\* all user data at rest and in transit." (one chunk) the query "What does
\* the policy say about encryption?" returns exactly one Source, which
\* references that chunk and has confidence > 0.1.
C4_PolicyScenario ==
    (RetrieveDone /\ rQuery = PolicyQuery /\ rDocuments = PolicyCollection
        /\ Len(Value(rDocuments[1].chunks)) = 1)
    => /\ Len(rSources) = 1
       /\ SourceOf(rDocuments, <<1, 1>>, rSources[1])
       /\ 10 * rSources[1].confidence.num > rSources[1].confidence.den

\* C5: findRelevantSources returns exactly the first min(5, n) of the n
\* chunks above the threshold ordered by score descending, ties in
\* insertion order (document order, then chunk order); so at most 5
\* Sources, with non-increasing confidence.
C5_TopFiveStableOrder ==
    RetrieveDone =>
        LET sc == Scores(rQuery, rDocuments)
            S == Surviving(sc)
        IN  /\ Len(rSources) = Min(5, Cardinality(S))
            /\ Len(rSources) <= 5
            /\ \A p \in S :
                  Rank(sc, p) < 5 =>
                      LET s == rSources[Rank(sc, p) + 1]
                      IN  /\ SourceOf(rDocuments, p, s)
                          /\ s.confidence = sc[p]
            /\ \A i \in 1..(Len(rSources) - 1) :
                  rSources[i].confidence.num * rSources[i + 1].confidence.den
                      >= rSources[i + 1].confidence.num * rSources[i].confidence.den

\* more than five chunks above the threshold; among the five returned,
\* two of equal score from different documents, two of different score,
\* and two of one document in the reverse of their chunk order
C5_Witness ==
    /\ RetrieveDone
    /\ Cardinality(Surviving(Scores(rQuery, rDocuments))) > 5
    /\ Len(rSources) = 5
    /\ \E i \in 1..4 :
          /\ CompareConfidence(rSources[i].confidence, rSources[i + 1].confidence) = 0
          /\ rSources[i].documentId < rSources[i + 1].documentId
    /\ \E i \in 1..4 :
          CompareConfidence(rSources[i].confidence, rSources[i + 1].confidence) > 0
    /\ \E i, j \in 1..5 :
          /\ i < j
          /\ rSources[i].documentId = rSources[j].documentId
          /\ rSources[i].startIndex > rSources[j].startIndex

\* C6: every Source returned has a confidence > 0.1 and <= 1, the count of
\* query word occurrences longer than 3 that are chunk words over the
\* larger word-list length; a chunk that scores 0 or exactly 0.1 is not
\* among the Sources.
C6_ConfidenceAboveThreshold ==
    RetrieveDone =>
        LET sc == Scores(rQuery, rDocuments)
        IN  /\ \A i \in 1..Len(rSources) :
                  /\ 10 * rSources[i].confidence.num > rSources[i].confidence.den
                  /\ rSources[i].confidence.num <= rSources[i].confidence.den
                  /\ \E p \in DOMAIN sc :
                        /\ SourceOf(rDocuments, p, rSources[i])
                        /\ rSources[i].confidence = sc[p]
            /\ \A p \in DOMAIN sc :
                  (sc[p].num = 0 \/ 10 * sc[p].num = sc[p].den) =>
                      ~\E i \in 1..Len(rSources) :
                          SourceOf(rDocuments, p, rSources[i])

\* a Source is returned while one chunk scores exactly 0.1 and another 0
C6_Witness ==
    /\ RetrieveDone
    /\ rSources # <<>>
    /\ LET sc == Scores(rQuery, rDocuments)
       IN  /\ \E p \in DOMAIN sc : sc[p].num > 0 /\ 10 * sc[p].num = sc[p].den
           /\ \E p \in DOMAIN sc : sc[p].num = 0

(***************************************************************************)
(* SpecSimilarity: calculateTextSimilarity on every pair of texts of at    *)
(* most MaxSimWords words of a three-word vocabulary (one word too short   *)
(* to count) joined by single blanks, and of texts with leading, trailing  *)
(* and doubled whitespace, in both argument orders.                        *)
(***************************************************************************)
MaxSimWords == 3

SimVocabulary == {WordA, <<"w", "x", "y", "z">>, <<"t", "h", "e">>}

RECURSIVE JoinWords(_)
JoinWords(ws) ==
    IF ws = <<>> THEN <<>>
    ELSE IF Len(ws) = 1 THEN ws[1]
         ELSE ws[1] \o <<" ">> \o JoinWords(Tail(ws))

SimTexts ==
    {JoinWords(ws) : ws \in UNION {[1..n -> SimVocabulary] : n \in 0..MaxSimWords}}
        \cup {<<" ">> \o WordA,
              WordA \o <<" ", "\n">> \o WordA,
              WordA \o <<" ">>}

InitSimilarity ==
    /\ simText1 \in SimTexts
    /\ simText2 \in SimTexts
    /\ similarity = NotScored
    /\ similaritySwapped = NotScored
    /\ IdleChunk /\ IdleRetrieve /\ IdleSystem

ScoreForward ==
    /\ similarity = NotScored
    /\ similarity' = calculateTextSimilarity(simText1, simText2)
    /\ UNCHANGED <<simText1, simText2, similaritySwapped>>
    /\ UNCHANGED <<chunkVars, retrieveVars, sysVars>>

ScoreSwapped ==
    /\ similaritySwapped = NotScored
    /\ similaritySwapped' = calculateTextSimilarity(simText2, simText1)
    /\ UNCHANGED <<simText1, simText2, similarity>>
    /\ UNCHANGED <<chunkVars, retrieveVars, sysVars>>

NextSimilarity == ScoreForward \/ ScoreSwapped

SpecSimilarity == InitSimilarity /\ [][NextSimilarity]_vars

BothScored == similarity # NotScored /\ similaritySwapped # NotScored

\* how often word w occurs among the words of text t
Occurrences(t, w) ==
    LET ws == SplitWhitespace(t)
    IN  Cardinality({i \in 1..Len(ws) : ws[i] = w})

\* every word longer than 3 that both texts hold occurs as often in one as
\* in the other
EqualMultiplicity(a, b) ==
    LET wa == SplitWhitespace(a)
    IN  \A i \in 1..Len(wa) :
            (Len(wa[i]) > 3 /\ Occurrences(b, wa[i]) > 0) =>
                Occurrences(a, wa[i]) = Occurrences(b, wa[i])

\* C7 (as claimed): calculateTextSimilarity(a, b) equals
\* calculateTextSimilarity(b, a) for any two texts, also when a word longer
\* than 3 occurs more often in one than in the other.
C7_Symmetric ==
    BothScored => CompareConfidence(similarity, similaritySwapped) = 0

\* C7 (amended): calculateTextSimilarity(a, b) equals
\* calculateTextSimilarity(b, a) whenever every word longer than 3 that
\* occurs in both texts occurs equally often in both.
C7_SymmetricOnEqualMultiplicity ==
    (BothScored /\ EqualMultiplicity(simText1, simText2)) =>
        /\ similarity = similaritySwapped
        /\ CompareConfidence(similarity, similaritySwapped) = 0

\* two different texts of different word counts sharing a counted word
C7_Witness ==
    /\ BothScored
    /\ EqualMultiplicity(simText1, simText2)
    /\ simText1 # simText2
    /\ Len(SplitWhitespace(simText1)) < Len(SplitWhitespace(simText2))
    /\ similarity.num >= 1

(***************************************************************************)
(* Spec: the documents and queries tables, the scheduler and processQuery. *)
(* A mutation or query (saveDocument, deleteDocument, getDocument,         *)
(* updateDocumentChunks, listDocuments, saveQuery) is one transaction, one *)
(* step; an action (processDocument, processQuery) is a step per           *)
(* transaction or outside call it awaits, and other steps come between.    *)
(***************************************************************************)
MaxDocs == 1
MaxQueries == 1     \* rows of queries, with the calls of processQuery under way
MaxClock == 1       \* the last value of Date.now()

Users == {"u1", "u2"}

\* who calls: a signed-in user, or nobody (getAuthUserId returns null)
Callers == Users \cup {None}

Titles == {"a.txt"}

Contents == {WordA}

Queries == {QueryShort}

\* completion.choices[0].message.content, or the text put in its place
\* when that is empty
Answers == {"According to Source 1", "I couldn't generate a response."}

(***************************************************************************)
(* The identity a scheduled run of processDocument finds in its context.   *)
(* saveDocument hands the scheduler the documentId alone.  What            *)
(* getAuthUserId returns there is the platform's choice, outside this      *)
(* code: no identity (Convex does not pass the scheduling caller's         *)
(* authentication on to a scheduled function) or the scheduling user's.    *)
(* Both are kept.                                                          *)
(***************************************************************************)
ScheduledIdentities(userId) == {None, userId}

\* ctx.db.get
DbGet(table, id) ==
    LET at == {i \in 1..Len(table) : table[i]._id = id}
    IN  IF at = {} THEN Absent ELSE Some(table[CHOOSE i \in at : TRUE])

\* ctx.db.delete
DbDelete(table, id) == SelectSeq(table, LAMBDA row : row._id # id)

\* ctx.db.patch of chunks and processedAt
DbPatchChunks(table, id, newChunks, now) ==
    [i \in 1..Len(table) |->
        IF table[i]._id = id THEN PatchChunks(table[i], newChunks, now)
        ELSE table[i]]

Reverse(s) == [i \in 1..Len(s) |-> s[Len(s) + 1 - i]]

\* faulty variant: no test of uploadedBy
GetDocumentAnyOwner(table, userId, documentId) ==
    IF userId = None THEN Absent ELSE DbGet(table, documentId)

\* getDocument: null without an identity, for a missing row, or for a row
\* of another user
getDocument(table, userId, documentId) ==
    IF userId = None THEN Absent
    ELSE LET document == DbGet(table, documentId)
         IN  IF IsAbsent(document) \/ Value(document).uploadedBy # userId
             THEN Absent
             ELSE document

\* faulty variant: no filter on uploadedBy
ListAllDocuments(table, userId) ==
    IF userId = None THEN <<>> ELSE Reverse(table)

\* listDocuments: the caller's rows, newest first
listDocuments(table, userId) ==
    IF userId = None THEN <<>>
    ELSE Reverse(SelectSeq(table, LAMBDA row : row.uploadedBy = userId))

\* faulty variant: the sources are not stored
QueryRowNoSources(userId, queryText, response, sources, processingTime) ==
    [userId |-> userId, query |-> queryText, response |-> response,
     sources |-> <<>>, processingTime |-> processingTime]

\* the row saveQuery inserts
QueryRow(userId, queryText, response, sources, processingTime) ==
    [userId |-> userId, query |-> queryText, response |-> response,
     sources |-> sources, processingTime |-> processingTime]

Init ==
    /\ dbDocuments = <<>>
    /\ dbQueries = <<>>
    /\ scheduled = <<>>
    /\ requests = <<>>
    /\ nextId = 1
    /\ clock = 0
    /\ IdleChunk /\ IdleRetrieve /\ IdleSimilarity

(***************************************************************************)
(* saveDocument: insert the row and schedule processDocument for it, in    *)
(* one transaction; a caller without identity gets "Not authenticated".    *)
(***************************************************************************)
SaveDocumentCall(caller, title, content) ==
    /\ IF caller = None
       THEN UNCHANGED <<dbDocuments, scheduled, nextId>>
       ELSE /\ dbDocuments' =
                   Append(dbDocuments, NewDocument(nextId, title, content, caller))
            /\ scheduled' = Append(scheduled,
                   [documentId |-> nextId, scheduledBy |-> caller,
                    state |-> "pending", document |-> Absent])
            /\ nextId' = nextId + 1
    /\ UNCHANGED <<dbQueries, requests, clock>>
    /\ UNCHANGED <<chunkVars, retrieveVars, simVars>>

\* saveDocument, for at most MaxDocs documents
SaveDocument(caller, title, content) ==
    /\ nextId <= MaxDocs
    /\ SaveDocumentCall(caller, title, content)

\* a sequence without its element i
Remove(s, i) == SubSeq(s, 1, i - 1) \o SubSeq(s, i + 1, Len(s))

(***************************************************************************)
(* processDocument, first await: runQuery(getDocument); a null result      *)
(* throws "Document not found" and the run is over.                        *)
(***************************************************************************)
ProcessRead(j) ==
    /\ scheduled[j].state = "pending"
    /\ \E identity \in ScheduledIdentities(scheduled[j].scheduledBy) :
           LET document == getDocument(dbDocuments, identity,
                                       scheduled[j].documentId)
           IN  scheduled' =
                   IF IsAbsent(document)
                   THEN Remove(scheduled, j)
                   ELSE [scheduled EXCEPT ![j].state = "read",
                                          ![j].document = document]
    /\ UNCHANGED <<dbDocuments, dbQueries, requests, nextId, clock>>
    /\ UNCHANGED <<chunkVars, retrieveVars, simVars>>

\* faulty variant: updateDocumentChunks stores the document read when its
\* row is gone
ProcessUpdateRestoring(j) ==
    /\ scheduled[j].state = "read"
    /\ LET id == scheduled[j].documentId
           newChunks == DocumentChunks(id, Value(scheduled[j].document).content)
       IN  IF IsAbsent(DbGet(dbDocuments, id))
           THEN dbDocuments' =
                    Append(dbDocuments,
                           PatchChunks(Value(scheduled[j].document), newChunks, clock))
           ELSE dbDocuments' = DbPatchChunks(dbDocuments, id, newChunks, clock)
    /\ scheduled' = Remove(scheduled, j)
    /\ UNCHANGED <<dbQueries, requests, nextId, clock>>
    /\ UNCHANGED <<chunkVars, retrieveVars, simVars>>

(***************************************************************************)
(* processDocument, second await: splitIntoChunks on the content read,     *)
(* then runMutation(updateDocumentChunks), which patches the row           *)
(* (ctx.db.patch throws when the row no longer exists); the run is over.   *)
(***************************************************************************)
ProcessUpdate(j) ==
    /\ scheduled[j].state = "read"
    /\ LET id == scheduled[j].documentId
           newChunks == DocumentChunks(id, Value(scheduled[j].document).content)
       IN  IF IsAbsent(DbGet(dbDocuments, id))
           THEN UNCHANGED dbDocuments
           ELSE dbDocuments' = DbPatchChunks(dbDocuments, id, newChunks, clock)
    /\ scheduled' = Remove(scheduled, j)
    /\ UNCHANGED <<dbQueries, requests, nextId, clock>>
    /\ UNCHANGED <<chunkVars, retrieveVars, simVars>>

\* faulty variant: any signed-in caller deletes the row
DeleteDocumentAnyUser(caller, documentId) ==
    /\ LET document == DbGet(dbDocuments, documentId)
       IN  IF caller = None \/ IsAbsent(document)
           THEN UNCHANGED dbDocuments
           ELSE dbDocuments' = DbDelete(dbDocuments, documentId)
    /\ UNCHANGED <<dbQueries, scheduled, requests, nextId, clock>>
    /\ UNCHANGED <<chunkVars, retrieveVars, simVars>>

(***************************************************************************)
(* deleteDocument: only the uploader's call deletes the row.               *)
(***************************************************************************)
DeleteDocument(caller, documentId) ==
    /\ LET document == DbGet(dbDocuments, documentId)
       IN  IF \/ caller = None
              \/ IsAbsent(document)
              \/ Value(document).uploadedBy # caller
           THEN UNCHANGED dbDocuments
           ELSE dbDocuments' = DbDelete(dbDocuments, documentId)
    /\ UNCHANGED <<dbQueries, scheduled, requests, nextId, clock>>
    /\ UNCHANGED <<chunkVars, retrieveVars, simVars>>

(***************************************************************************)
(* processQuery up to the completion call: startTime,                      *)
(* runQuery(listDocuments), the test documents.length === 0, which ends    *)
(* the call with "No documents available", and findRelevantSources on the  *)
(* documents listed (a computation on the listing alone).                  *)
(***************************************************************************)
QueryStartCall(caller, queryText) ==
    /\ LET listed == listDocuments(dbDocuments, caller)
       IN  requests' =
               IF Len(listed) = 0
               THEN requests
               ELSE Append(requests,
                        [user |-> caller, query |-> queryText,
                         startTime |-> clock,
                         sources |-> findRelevantSources(queryText, listed),
                         answer |-> "", processingTime |-> 0,
                         pc |-> "retrieved"])
    /\ UNCHANGED <<dbDocuments, dbQueries, scheduled, nextId, clock>>
    /\ UNCHANGED <<chunkVars, retrieveVars, simVars>>

\* processQuery, for at most MaxQueries calls
QueryStart(caller, queryText) ==
    /\ Len(dbQueries) + Len(requests) < MaxQueries
    /\ QueryStartCall(caller, queryText)

(***************************************************************************)
(* processQuery: the completion call of generateResponse, which returns an *)
(* answer or throws (the call is over); after an answer processingTime =   *)
(* Date.now() - startTime.                                                 *)
(***************************************************************************)
QueryGenerate(r) ==
    /\ requests[r].pc = "retrieved"
    /\ \/ \E answer \in Answers :
              requests' = [requests EXCEPT
                  ![r].answer = answer,
                  ![r].processingTime = clock - requests[r].startTime,
                  ![r].pc = "generated"]
       \/ requests' = Remove(requests, r)
    /\ UNCHANGED <<dbDocuments, dbQueries, scheduled, nextId, clock>>
    /\ UNCHANGED <<chunkVars, retrieveVars, simVars>>

(***************************************************************************)
(* processQuery: runMutation(saveQuery), then the return of answer,        *)
(* sources and processingTime; saveQuery throws "Not authenticated", and   *)
(* inserts nothing, for a caller without identity.                         *)
(***************************************************************************)
QuerySave(r) ==
    /\ requests[r].pc = "generated"
    /\ IF requests[r].user = None
       THEN UNCHANGED dbQueries
       ELSE dbQueries' = Append(dbQueries,
                QueryRow(requests[r].user, requests[r].query,
                         requests[r].answer, requests[r].sources,
                         requests[r].processingTime))
    /\ requests' = Remove(requests, r)
    /\ UNCHANGED <<dbDocuments, scheduled, nextId, clock>>
    /\ UNCHANGED <<chunkVars, retrieveVars, simVars>>

\* Date.now() moves on
Tick ==
    /\ clock < MaxClock
    /\ clock' = clock + 1
    /\ UNCHANGED <<dbDocuments, dbQueries, scheduled, requests, nextId>>
    /\ UNCHANGED <<chunkVars, retrieveVars, simVars>>

Next ==
    \/ \E caller \in Callers, title \in Titles, content \in Contents :
           SaveDocument(caller, title, content)
    \/ \E j \in 1..Len(scheduled) : ProcessRead(j)
    \/ \E j \in 1..Len(scheduled) : ProcessUpdate(j)
    \/ \E caller \in Callers, documentId \in 1..MaxDocs :
           DeleteDocument(caller, documentId)
    \/ \E caller \in Callers, queryText \in Queries :
           QueryStart(caller, queryText)
    \/ \E r \in 1..Len(requests) : QueryGenerate(r)
    \/ \E r \in 1..Len(requests) : QuerySave(r)
    \/ Tick

Spec == Init /\ [][Next]_vars

\* the documents a call of processQuery by this user would be answered from:
\* the user's rows that have at least one chunk
ProcessedDocuments(userId) ==
    {i \in 1..Len(dbDocuments) :
        /\ dbDocuments[i].uploadedBy = userId
        /\ ~IsAbsent(dbDocuments[i].chunks)
        /\ Len(Value(dbDocuments[i].chunks)) > 0}

\* a call of processQuery gets past the test on the listing in this step
QueryAdmitted == Len(requests') = Len(requests) + 1

(***************************************************************************)
(* C8: a call of processQuery by a user none of whose documents has        *)
(* processed chunks ends with "No documents available" before              *)
(* findRelevantSources and the completion call: such a call never gets     *)
(* past the test on the listing.                                           *)
(***************************************************************************)
C8_NoChunksNoRetrieval ==
    [][QueryAdmitted =>
          ProcessedDocuments(requests'[Len(requests')].user) # {}]_vars

\* the values processQuery returns to its caller, as the row of them
ReturnedRow(request) ==
    [userId |-> request.user, query |-> request.query,
     response |-> request.answer, sources |-> request.sources,
     processingTime |-> request.processingTime]

(***************************************************************************)
(* C9: the queries table changes only when a call of processQuery that     *)
(* has its answer ends, and then by exactly one row appended, which holds  *)
(* the query and the answer, sources and processingTime returned; a call   *)
(* that ends without an answer (the completion call threw) leaves the      *)
(* table as it is, and a call that ends with an answer always inserts.     *)
(***************************************************************************)
C9_QueryRecordAllOrNothing ==
    [][/\ \A r \in 1..Len(requests) :
              requests' = Remove(requests, r) =>
                  IF requests[r].pc = "generated"
                  THEN dbQueries' = Append(dbQueries, ReturnedRow(requests[r]))
                  ELSE dbQueries' = dbQueries
       /\ dbQueries' # dbQueries =>
              \E r \in 1..Len(requests) :
                  /\ requests[r].pc = "generated"
                  /\ requests' = Remove(requests, r)]_vars

\* a row was written by a call that returned sources
C9_Witness ==
    \E q \in 1..Len(dbQueries) :
        /\ Len(dbQueries[q].sources) > 0
        /\ dbQueries[q].response \in Answers

(***************************************************************************)
(* C10: the run of processDocument scheduled by saveDocument attaches      *)
(* chunks and processedAt to the document unless the document is deleted;  *)
(* so a stored document without chunks still has its run ahead of it.      *)
(***************************************************************************)
C10_UnprocessedDocumentHasRun ==
    \A i \in 1..Len(dbDocuments) :
        IsAbsent(dbDocuments[i].chunks) =>
            \E j \in 1..Len(scheduled) :
                scheduled[j].documentId = dbDocuments[i]._id

(***************************************************************************)
(* SpecStore: the documents table alone, under saveDocument, the scheduled *)
(* processDocument and deleteDocument, for up to MaxStoreDocs documents of *)
(* two users, with contents of no, one and two chunks.                     *)
(* Date.now() stays at its first value: no function modelled reads        *)
(* processedAt.                                                            *)
(***************************************************************************)
MaxStoreDocs == 2

StoreContents == {<<>>, WordA, LongContent}

\* saveDocument, for at most MaxStoreDocs documents
StoreSave(caller, title, content) ==
    /\ nextId <= MaxStoreDocs
    /\ SaveDocumentCall(caller, title, content)

NextStore ==
    \/ \E caller \in Callers, title \in Titles, content \in StoreContents :
           StoreSave(caller, title, content)
    \/ \E j \in 1..Len(scheduled) : ProcessRead(j)
    \/ \E j \in 1..Len(scheduled) : ProcessUpdate(j)
    \/ \E caller \in Callers, documentId \in 1..MaxStoreDocs :
           DeleteDocument(caller, documentId)

SpecStore == Init /\ [][NextStore]_vars

\* the _ids of the rows of a table
Ids(table) == {table[i]._id : i \in 1..Len(table)}

\* the caller is signed in and the document exists and is the caller's
MayDelete(caller, documentId) ==
    /\ caller # None
    /\ \E i \in 1..Len(dbDocuments) :
           /\ dbDocuments[i]._id = documentId
           /\ dbDocuments[i].uploadedBy = caller

(***************************************************************************)
(* C11: a call of deleteDocument by the uploader of a stored document      *)
(* removes that row and no other, the rows left keeping their fields and   *)
(* order; a call without identity, by another user or for a document not   *)
(* stored leaves the table as it is; and whenever a row leaves the table,  *)
(* it is the only one to leave and no row is changed or added.             *)
(***************************************************************************)
C11_DeleteOnlyByUploader ==
    [][/\ \A caller \in Callers, documentId \in 1..MaxStoreDocs :
              DeleteDocument(caller, documentId) =>
                  IF MayDelete(caller, documentId)
                  THEN /\ Ids(dbDocuments') = Ids(dbDocuments) \ {documentId}
                       /\ \A i \in 1..Len(dbDocuments) :
                              dbDocuments[i]._id # documentId =>
                                  \E k \in 1..Len(dbDocuments') :
                                      dbDocuments'[k] = dbDocuments[i]
                       /\ Len(dbDocuments') = Len(dbDocuments) - 1
                  ELSE dbDocuments' = dbDocuments
       /\ Ids(dbDocuments) \ Ids(dbDocuments') # {} =>
              /\ Cardinality(Ids(dbDocuments) \ Ids(dbDocuments')) = 1
              /\ \A k \in 1..Len(dbDocuments') :
                     \E i \in 1..Len(dbDocuments) :
                         dbDocuments[i] = dbDocuments'[k]]_vars

\* of two documents of two users the first was deleted, the second, with
\* its chunks, is still stored
C11_Witness ==
    /\ nextId = 3
    /\ Len(dbDocuments) = 1
    /\ dbDocuments[1]._id = 2
    /\ ~IsAbsent(dbDocuments[1].chunks)
    /\ scheduled = <<>>

\* the windows [start, end) of a text of length len, in order: the first at
\* 0, each of DocChunkSize characters or up to the end of the text, each
\* next one DocChunkOverlap before the end of the one before, the last
\* ending the text; none for the empty text
IsWindowing(cs, len) ==
    /\ (len = 0) <=> (Len(cs) = 0)
    /\ Len(cs) > 0 =>
           /\ cs[1].startIndex = 0
           /\ cs[Len(cs)].endIndex = len
    /\ \A i \in 1..Len(cs) :
           /\ cs[i].endIndex = Min(cs[i].startIndex + DocChunkSize, len)
           /\ i < Len(cs) =>
                  /\ cs[i].endIndex < len
                  /\ cs[i + 1].startIndex = cs[i].endIndex - DocChunkOverlap

(***************************************************************************)
(* C13: a stored document has neither chunks nor processedAt, or both; and *)
(* then its chunks are the chunking of its content with window 1000 and    *)
(* overlap 200: chunk i (from 0) has the id made of the document's _id and *)
(* i, its content is the content of the document from its startIndex to    *)
(* its endIndex, 0 <= startIndex <= endIndex <= L, and the startIndex does *)
(* not decrease along the chunks.                                          *)
(***************************************************************************)
C13_ChunksAreChunkingOfContent ==
    \A d \in 1..Len(dbDocuments) :
        LET doc == dbDocuments[d]
            L == Len(doc.content)
        IN  IF IsAbsent(doc.chunks)
            THEN IsAbsent(doc.processedAt)
            ELSE LET cs == Value(doc.chunks)
                 IN  /\ ~IsAbsent(doc.processedAt)
                     /\ IsWindowing(cs, L)
                     /\ \A i \in 1..Len(cs) :
                            /\ cs[i].id = <<doc._id, i - 1>>
                            /\ 0 <= cs[i].startIndex
                            /\ cs[i].startIndex <= cs[i].endIndex
                            /\ cs[i].endIndex <= L
                            /\ cs[i].content =
                                   SubSeq(doc.content, cs[i].startIndex + 1,
                                          cs[i].endIndex)
                            /\ i < Len(cs) =>
                                   cs[i].startIndex <= cs[i + 1].startIndex

\* a document with two chunks, one with none (its content is empty) and
\* processedAt, or one left without chunks by a run that is over
C13_Witness ==
    /\ \E d \in 1..Len(dbDocuments) :
           /\ ~IsAbsent(dbDocuments[d].chunks)
           /\ Len(Value(dbDocuments[d].chunks)) = 2
    /\ \E d \in 1..Len(dbDocuments) :
           \/ /\ ~IsAbsent(dbDocuments[d].chunks)
              /\ Len(Value(dbDocuments[d].chunks)) = 0
           \/ /\ IsAbsent(dbDocuments[d].chunks)
              /\ scheduled = <<>>

\* the documents deleted so far: _ids given out and no longer stored
Deleted(table) == (1..(nextId - 1)) \ Ids(table)

(***************************************************************************)
(* C14: a deleted document never comes back, in the table or in any        *)
(* user's listDocuments; and a run of processDocument that read the        *)
(* document before it was deleted ends, at updateDocumentChunks, leaving   *)
(* the table (every other document included) as it is.                     *)
(***************************************************************************)
C14_DeletedStaysDeleted ==
    [][/\ Deleted(dbDocuments) \subseteq Deleted(dbDocuments')
       /\ \A u \in Users :
              Ids(listDocuments(dbDocuments', u)) \cap Deleted(dbDocuments) = {}
       /\ \A j \in 1..Len(scheduled) :
              (/\ scheduled[j].state = "read"
               /\ scheduled[j].documentId \in Deleted(dbDocuments)
               /\ scheduled' = Remove(scheduled, j))
              => dbDocuments' = dbDocuments]_vars

\* a document was deleted after its run of processDocument read it, and
\* another document is stored
C14_Witness ==
    /\ \E j \in 1..Len(scheduled) :
           /\ scheduled[j].state = "read"
           /\ scheduled[j].documentId \in Deleted(dbDocuments)
    /\ Len(dbDocuments) = 1

(***************************************************************************)
(* SpecTenants: two users uploading, deleting and querying side by side,   *)
(* for up to MaxTenantDocs documents and MaxTenantQueries calls of         *)
(* processQuery; Date.now() stays at its first value.  The calls of       *)
(* saveDocument and deleteDocument are the signed-in users' (without       *)
(* identity both change nothing); processQuery is called without identity  *)
(* too.                                                                    *)
(***************************************************************************)
MaxTenantDocs == 2
MaxTenantQueries == 1

\* saveDocument, for at most MaxTenantDocs documents
TenantSave(caller, title, content) ==
    /\ nextId <= MaxTenantDocs
    /\ SaveDocumentCall(caller, title, content)

\* processQuery, for at most MaxTenantQueries calls
TenantQueryStart(caller, queryText) ==
    /\ Len(dbQueries) + Len(requests) < MaxTenantQueries
    /\ QueryStartCall(caller, queryText)

NextTenants ==
    \/ \E caller \in Users, title \in Titles, content \in Contents :
           TenantSave(caller, title, content)
    \/ \E j \in 1..Len(scheduled) : ProcessRead(j)
    \/ \E j \in 1..Len(scheduled) : ProcessUpdate(j)
    \/ \E caller \in Users, documentId \in 1..MaxTenantDocs :
           DeleteDocument(caller, documentId)
    \/ \E caller \in Callers, queryText \in Queries :
           TenantQueryStart(caller, queryText)
    \/ \E r \in 1..Len(requests) : QueryGenerate(r)
    \/ \E r \in 1..Len(requests) : QuerySave(r)

SpecTenants == Init /\ [][NextTenants]_vars

\* .take(20)
HistoryLimit == 20

\* faulty variant: no index on userId
QueryHistoryOfAll(table, userId) ==
    IF userId = None THEN <<>>
    ELSE SubSeq(Reverse(table), 1, Min(HistoryLimit, Len(table)))

\* getQueryHistory: the caller's rows, newest first, at most 20
getQueryHistory(table, userId) ==
    IF userId = None THEN <<>>
    ELSE LET own == Reverse(SelectSeq(table, LAMBDA row : row.userId = userId))
         IN  SubSeq(own, 1, Min(HistoryLimit, Len(own)))

\* every source references a stored document uploaded by this user
SourcesOwnedBy(sources, userId) ==
    \A k \in 1..Len(sources) :
        \E d \in 1..Len(dbDocuments) :
            /\ dbDocuments[d]._id = sources[k].documentId
            /\ dbDocuments[d].uploadedBy = userId

(***************************************************************************)
(* C12: the sources a call of processQuery retrieves reference documents   *)
(* of the calling user, stored when the call lists them; the call keeps    *)
(* its user and sources until it ends; a row added to queries carries the  *)
(* user and the sources of the call that ends in that step; and            *)
(* getQueryHistory returns rows of the caller only.                        *)
(***************************************************************************)
C12_TenantIsolation ==
    [][/\ QueryAdmitted =>
              LET request == requests'[Len(requests')]
              IN  /\ request.user \in Users
                  /\ SourcesOwnedBy(request.sources, request.user)
       /\ Len(requests') = Len(requests) =>
              \A r \in 1..Len(requests) :
                  /\ requests'[r].user = requests[r].user
                  /\ requests'[r].sources = requests[r].sources
       /\ dbQueries' # dbQueries =>
              \E r \in 1..Len(requests) :
                  /\ Len(dbQueries') = Len(dbQueries) + 1
                  /\ SubSeq(dbQueries', 1, Len(dbQueries)) = dbQueries
                  /\ dbQueries'[Len(dbQueries')].userId = requests[r].user
                  /\ dbQueries'[Len(dbQueries')].sources = requests[r].sources
                  /\ requests' = Remove(requests, r)
       /\ \A u \in Callers :
              LET history == getQueryHistory(dbQueries', u)
              IN  \A h \in 1..Len(history) : history[h].userId = u]_vars

\* both users have a document with chunks stored, and the one query
\* recorded has one source, a document of the user who asked
C12_Witness ==
    /\ Len(dbDocuments) = 2
    /\ dbDocuments[1].uploadedBy # dbDocuments[2].uploadedBy
    /\ \A d \in 1..2 : ProcessedDocuments(dbDocuments[d].uploadedBy) = {d}
    /\ Len(dbQueries) = 1
    /\ Len(dbQueries[1].sources) = 1
    /\ SourcesOwnedBy(dbQueries[1].sources, dbQueries[1].userId)
    /\ Len(getQueryHistory(dbQueries, dbQueries[1].userId)) = 1

=============================================================================
